---- MODULE Spec2Model ----
(***************************************************************************)
(* Model of gotomicro/ego-kit, internal/tree/red_black_tree.go.            *)
(*                                                                         *)
(* The heap of RBNode objects is a sequence of node records; a pointer is  *)
(* an index into it and Nil (0) is the nil pointer.  Every public          *)
(* operation (Add, Delete, Find) is one action that runs the whole Go      *)
(* function, loops included, on a tree record                              *)
(*   [heap, root, size, rots, allocs, iters, panic, stray, fixups, early]  *)
(* whose last seven fields only record what the run did (rotations, node   *)
(* allocations, fixup iterations, nil dereference, a fixup iteration that  *)
(* did not advance, calls of fixAfterDelete, a fixup iteration that began  *)
(* after a rotation).                                                      *)
(*                                                                         *)
(* The second part models the SkipList of package list.  Its nodes are a   *)
(* sequence as well; node 1 is the header, Forward[i] of the Go code is    *)
(* Forward[i + 1] here, and randomLevel is a free choice of the level.     *)
(*                                                                         *)
(* The third part models the ConcurrentPriorityQueue of package queue: a   *)
(* set of goroutines, each calling the methods one after another, the      *)
(* sync.RWMutex they lock and the wrapped queue.  A method is four steps:  *)
(* the call, the lock, the call on the wrapped queue and the deferred      *)
(* unlock together with the return.                                        *)
(*                                                                         *)
(* The fourth part models the MyHashMap of package mapx: the Go map from   *)
(* hash code to chain head is a function, the chain nodes are a sequence,  *)
(* and a key is an object with an identity and a copy mark, two keys being *)
(* Equal when their identities are.                                        *)
(***************************************************************************)
EXTENDS Integers, Sequences, FiniteSets, TLC

\* ------------------------------------------------------------------ bounds
MaxKey == 4
MaxVal == 2
MaxDeepKey == 8
MaxShape == 4
MaxNodes == 11
MaxLen == 3
MaxListVal == 2
MaxPick == 2
MaxProcs == 3
MaxCap == 2
MaxMapKey == 4
MaxMapVal == 1

Keys == 1..MaxKey
Vals == 1..MaxVal
DeepKeys == 1..MaxDeepKey

\* ------------------------------------------------------- colours and nodes
Red == FALSE
Black == TRUE
Nil == 0

\* compare: the ascending integer comparator handed to NewRBTree
compare(a, b) == IF a < b THEN -1 ELSE IF a > b THEN 1 ELSE 0

\* NewRBNode / the composite literals &RBNode{...}
RBNode(key, value, color, left, right, parent) ==
  [Key |-> key, Value |-> value, color |-> color,
   left |-> left, right |-> right, parent |-> parent]

\* &RBNode[T, V]{}: every field is the zero value (colour false = Red)
ZeroNode == RBNode(0, 0, FALSE, Nil, Nil, Nil)

\* NewRBTree: an empty tree
NewRBTree ==
  [heap |-> <<>>, root |-> Nil, size |-> 0,
   rots |-> 0, allocs |-> 0, iters |-> 0, panic |-> FALSE, stray |-> FALSE,
   fixups |-> 0, early |-> FALSE]

\* allocation of one node object: it gets the next free address
Alloc(t, rec) ==
  [t EXCEPT !.heap = Append(t.heap, rec), !.allocs = t.allocs + 1]

Fresh(t) == Len(t.heap) + 1

\* ----------------------------------------------------- nil-safe accessors
getColor(h, n) == IF n = Nil THEN Black ELSE h[n].color

setColor(h, n, c) == IF n = Nil THEN h ELSE [h EXCEPT ![n].color = c]

getParent(h, n) == IF n = Nil THEN Nil ELSE h[n].parent

getLeft(h, n) == IF n = Nil THEN Nil ELSE h[n].left

getRight(h, n) == IF n = Nil THEN Nil ELSE h[n].right

getBrother(h, n) ==
  IF n = Nil THEN Nil
  ELSE IF n = getLeft(h, getParent(h, n))
       THEN getRight(h, getParent(h, n))
       ELSE getLeft(h, getParent(h, n))

getUncle(h, n) == IF n = Nil THEN Nil ELSE getBrother(h, getParent(h, n))

getGrandParent(h, n) == IF n = Nil THEN Nil ELSE getParent(h, getParent(h, n))

\* n.setColor(c) in the tree t
paint(t, n, c) == [t EXCEPT !.heap = setColor(t.heap, n, c)]

\* ----------------------------------------------------------------- rotations
\* faulty variant of rotateLeft: the parent of the transferred subtree is kept
rotateLeftInnerParentKept(t, node) ==
  IF node = Nil THEN t
  ELSE
    LET h0 == t.heap
        r  == h0[node].right
    IN IF r = Nil THEN t
       ELSE
         LET rl == h0[r].left
             p  == h0[node].parent
             h1 == [h0 EXCEPT ![node].right = rl]
             h3 == [h1 EXCEPT ![r].parent = p]
             h4 == IF p = Nil THEN h3
                   ELSE IF h3[p].left = node THEN [h3 EXCEPT ![p].left = r]
                   ELSE [h3 EXCEPT ![p].right = r]
             h5 == [h4 EXCEPT ![r].left = node, ![node].parent = r]
         IN [t EXCEPT !.heap = h5,
                      !.root = IF p = Nil THEN r ELSE t.root,
                      !.rots = t.rots + 1]

rotateLeft(t, node) ==
  IF node = Nil THEN t
  ELSE
    LET h0 == t.heap
        r  == h0[node].right
    IN IF r = Nil THEN t
       ELSE
         LET rl == h0[r].left
             p  == h0[node].parent
             h1 == [h0 EXCEPT ![node].right = rl]
             h2 == IF rl # Nil THEN [h1 EXCEPT ![rl].parent = node] ELSE h1
             h3 == [h2 EXCEPT ![r].parent = p]
             h4 == IF p = Nil THEN h3
                   ELSE IF h3[p].left = node THEN [h3 EXCEPT ![p].left = r]
                   ELSE [h3 EXCEPT ![p].right = r]
             h5 == [h4 EXCEPT ![r].left = node, ![node].parent = r]
         IN [t EXCEPT !.heap = h5,
                      !.root = IF p = Nil THEN r ELSE t.root,
                      !.rots = t.rots + 1]

\* faulty variant of rotateRight: root is not moved to the promoted child
rotateRightRootKept(t, node) ==
  IF node = Nil THEN t
  ELSE
    LET h0 == t.heap
        l  == h0[node].left
    IN IF l = Nil THEN t
       ELSE
         LET lr == h0[l].right
             p  == h0[node].parent
             h1 == [h0 EXCEPT ![node].left = lr]
             h2 == IF lr # Nil THEN [h1 EXCEPT ![lr].parent = node] ELSE h1
             h3 == [h2 EXCEPT ![l].parent = p]
             h4 == IF p = Nil THEN h3
                   ELSE IF h3[p].right = node THEN [h3 EXCEPT ![p].right = l]
                   ELSE [h3 EXCEPT ![p].left = l]
             h5 == [h4 EXCEPT ![l].right = node, ![node].parent = l]
         IN [t EXCEPT !.heap = h5, !.rots = t.rots + 1]

rotateRight(t, node) ==
  IF node = Nil THEN t
  ELSE
    LET h0 == t.heap
        l  == h0[node].left
    IN IF l = Nil THEN t
       ELSE
         LET lr == h0[l].right
             p  == h0[node].parent
             h1 == [h0 EXCEPT ![node].left = lr]
             h2 == IF lr # Nil THEN [h1 EXCEPT ![lr].parent = node] ELSE h1
             h3 == [h2 EXCEPT ![l].parent = p]
             h4 == IF p = Nil THEN h3
                   ELSE IF h3[p].right = node THEN [h3 EXCEPT ![p].right = l]
                   ELSE [h3 EXCEPT ![p].left = l]
             h5 == [h4 EXCEPT ![l].right = node, ![node].parent = l]
         IN [t EXCEPT !.heap = h5,
                      !.root = IF p = Nil THEN l ELSE t.root,
                      !.rots = t.rots + 1]

\* ------------------------------------------------------------ insertion fixup
\* the three case handlers return the tree and the new x
\* faulty variant of fixUncleRed: x moves to its parent only
fixUncleRedToParent(t, x, y) ==
  [t |-> paint(paint(paint(t, getParent(t.heap, x), Black), y, Black),
               getGrandParent(t.heap, x), Red),
   x |-> getParent(t.heap, x)]

fixUncleRed(t, x, y) ==
  [t |-> paint(paint(paint(t, getParent(t.heap, x), Black), y, Black),
               getGrandParent(t.heap, x), Red),
   x |-> getGrandParent(t.heap, x)]

\* the tail of fixAddLeftBlack: recolour parent and grandparent, rotate right
addLeftOuter(t, x) ==
  [t |-> rotateRight(paint(paint(t, getParent(t.heap, x), Black),
                           getGrandParent(t.heap, x), Red),
                     getGrandParent(t.heap, x)),
   x |-> x]

fixAddLeftBlack(t, x) ==
  IF x = getRight(t.heap, getParent(t.heap, x))
  THEN addLeftOuter(rotateLeft(t, getParent(t.heap, x)), getParent(t.heap, x))
  ELSE addLeftOuter(t, x)

\* faulty variant of addRightOuter: the grandparent is not recoloured Red
addRightOuterGrandParentKept(t, x) ==
  [t |-> rotateLeft(paint(t, getParent(t.heap, x), Black),
                    getGrandParent(t.heap, x)),
   x |-> x]

\* the tail of fixAddRightBlack: recolour parent and grandparent, rotate left
addRightOuter(t, x) ==
  [t |-> rotateLeft(paint(paint(t, getParent(t.heap, x), Black),
                          getGrandParent(t.heap, x), Red),
                    getGrandParent(t.heap, x)),
   x |-> x]

fixAddRightBlack(t, x) ==
  IF x = getLeft(t.heap, getParent(t.heap, x))
  THEN addRightOuter(rotateRight(t, getParent(t.heap, x)), getParent(t.heap, x))
  ELSE addRightOuter(t, x)

\* the condition of the for loop of fixAfterAdd
fixAfterAddGoesOn(t, x) ==
  x # Nil /\ x # t.root /\ ~getColor(t.heap, getParent(t.heap, x))

RECURSIVE fixAfterAddLoop(_, _)
\* "continue": the next iteration, with the x a case handler returned; g is
\* the grandparent of the x the iteration started with.  The iteration is
\* recorded as stray when x is neither g nor a node with a Black parent, and
\* as early when it has rotated and the loop goes on.
fixAfterAddAgain(r, g) ==
  fixAfterAddLoop(
    [r.t EXCEPT !.iters = @ + 1,
                !.stray = @ \/ ~(r.x = g \/ getColor(r.t.heap, getParent(r.t.heap, r.x))),
                !.early = @ \/ (r.t.rots > 0 /\ fixAfterAddGoesOn(r.t, r.x))],
    r.x)

fixAfterAddLoop(t, x) ==
  IF fixAfterAddGoesOn(t, x)
  THEN fixAfterAddAgain(
         IF ~getColor(t.heap, getUncle(t.heap, x))
         THEN fixUncleRed(t, x, getUncle(t.heap, x))
         ELSE IF getParent(t.heap, x) = getLeft(t.heap, getGrandParent(t.heap, x))
              THEN fixAddLeftBlack(t, x)
              ELSE fixAddRightBlack(t, x),
         getGrandParent(t.heap, x))
  ELSE paint(t, t.root, Black)

\* faulty variant of fixAfterAdd: the loop is never entered
fixAfterAddNoLoop(t, x) ==
  paint([t EXCEPT !.heap = [t.heap EXCEPT ![x].color = Red]], t.root, Black)

fixAfterAdd(t, x) ==
  fixAfterAddLoop([t EXCEPT !.heap = [t.heap EXCEPT ![x].color = Red]], x)

\* ------------------------------------------------------------------- search
RECURSIVE getRBNodeFrom(_, _, _)
getRBNodeFrom(h, node, key) ==
  IF node = Nil THEN Nil
  ELSE LET cmp == compare(key, h[node].Key)
       IN IF cmp < 0 THEN getRBNodeFrom(h, h[node].left, key)
          ELSE IF cmp > 0 THEN getRBNodeFrom(h, h[node].right, key)
          ELSE node

getRBNode(t, key) == getRBNodeFrom(t.heap, t.root, key)

\* ---------------------------------------------------------------- insertion
\* the descent of addNode: [dup, parent, cmp] at the end of the for loop
RECURSIVE addDescend(_, _, _, _, _)
addDescend(h, tn, key, parent, cmp) ==
  IF tn = Nil THEN [dup |-> FALSE, parent |-> parent, cmp |-> cmp]
  ELSE LET c == compare(key, h[tn].Key)
       IN IF c < 0 THEN addDescend(h, h[tn].left, key, tn, c)
          ELSE IF c > 0 THEN addDescend(h, h[tn].right, key, tn, c)
          ELSE [dup |-> TRUE, parent |-> tn, cmp |-> c]

\* faulty variant of addDuplicate: the value of the existing node is replaced
addDuplicateUpsert(t, n, value) == [t EXCEPT !.heap = [t.heap EXCEPT ![n].Value = value]]

\* addNode, duplicate key: return ErrRBTreeSameRBNode, nothing is written
addDuplicate(t, n, value) == t

\* faulty variant of addAttach: size is not incremented
addAttachUncounted(t, key, value, d) ==
  LET temp == Fresh(t)
      t3 == Alloc(t, RBNode(key, value, Red, Nil, Nil, d.parent))
      h4 == IF d.cmp < 0 THEN [t3.heap EXCEPT ![d.parent].left = temp]
            ELSE [t3.heap EXCEPT ![d.parent].right = temp]
  IN fixAfterAdd([t3 EXCEPT !.heap = h4], temp)

\* addNode, after the descent: link a Red tempNode under parent, count it and
\* rebalance
addAttach(t, key, value, d) ==
  LET temp == Fresh(t)
      t3 == Alloc(t, RBNode(key, value, Red, Nil, Nil, d.parent))
      h4 == IF d.cmp < 0 THEN [t3.heap EXCEPT ![d.parent].left = temp]
            ELSE [t3.heap EXCEPT ![d.parent].right = temp]
      t4 == [t3 EXCEPT !.heap = h4, !.size = t3.size + 1]
  IN fixAfterAdd(t4, temp)

\* addNode returns [t, err]; err = TRUE stands for ErrRBTreeSameRBNode
addNode(t0, key, value) ==
  LET tn == t0.root
      \* if root == nil { root = NewRBNode(key, value) }
      t1 == IF t0.root = Nil
            THEN [Alloc(t0, RBNode(key, value, Red, Nil, Nil, Nil))
                    EXCEPT !.root = Fresh(t0)]
            ELSE t0
      \* parent := &RBNode{}
      dummy == Fresh(t1)
      t2 == Alloc(t1, ZeroNode)
      d  == addDescend(t2.heap, tn, key, dummy, 0)
  IN IF d.dup THEN [t |-> addDuplicate(t2, d.parent, value), err |-> TRUE]
     ELSE [t |-> addAttach(t2, key, value, d), err |-> FALSE]

\* ----------------------------------------------------------------- deletion
\* getSuccessor, first branch: leftmost node of the right subtree
RECURSIVE leftmost(_, _)
leftmost(h, p) == IF h[p].left # Nil THEN leftmost(h, h[p].left) ELSE p

\* getSuccessor, second branch: first ancestor reached from a left child
RECURSIVE climbRight(_, _, _)
climbRight(h, p, ch) ==
  IF p # Nil /\ ch = h[p].right THEN climbRight(h, h[p].parent, p) ELSE p

\* faulty variant of getSuccessor: the descent to the leftmost node is missing
getSuccessorNoDescent(h, node) ==
  IF node = Nil THEN Nil
  ELSE IF h[node].right # Nil THEN h[node].right
  ELSE climbRight(h, h[node].parent, node)

getSuccessor(h, node) ==
  IF node = Nil THEN Nil
  ELSE IF h[node].right # Nil THEN leftmost(h, h[node].right)
  ELSE climbRight(h, h[node].parent, node)

\* the tree with the sibling of x as the code recomputes it after a rotation
withRightSib(t, x) == [t |-> t, sib |-> getRight(t.heap, getParent(t.heap, x))]

withLeftSib(t, x) == [t |-> t, sib |-> getLeft(t.heap, getParent(t.heap, x))]

withBrother(t, x) == [t |-> t, sib |-> getBrother(t.heap, x)]

\* x = redBlackTree.root, the exit of the fixAfterDelete loop
atRoot(t) == [t |-> t, x |-> t.root]

\* fixAfterDeleteLeft, Red sibling: recolour, rotate left at the parent
deleteLeftRedSib(t, x, sib) ==
  IF ~getColor(t.heap, sib)
  THEN withRightSib(rotateLeft(paint(paint(t, sib, Black),
                                     getParent(t.heap, sib), Red),
                               getParent(t.heap, x)), x)
  ELSE [t |-> t, sib |-> sib]

\* fixAfterDeleteLeft, far child Black: recolour, rotate right at the sibling
deleteLeftNear(t, x, sib) ==
  IF getColor(t.heap, getRight(t.heap, sib))
  THEN withRightSib(rotateRight(paint(paint(t, getLeft(t.heap, sib), Black),
                                      sib, Red), sib), x)
  ELSE [t |-> t, sib |-> sib]

\* faulty variant of deleteLeftFar: x is not moved to the root
deleteLeftFarStays(r, x) ==
  [t |-> rotateLeft(
           paint(paint(paint(r.t, r.sib, getColor(r.t.heap, getParent(r.t.heap, x))),
                       getParent(r.t.heap, x), Black),
                 getRight(r.t.heap, r.sib), Black),
           getParent(r.t.heap, x)),
   x |-> x]

\* fixAfterDeleteLeft, far child Red: recolour, rotate left at the parent
deleteLeftFar(r, x) ==
  atRoot(rotateLeft(
    paint(paint(paint(r.t, r.sib, getColor(r.t.heap, getParent(r.t.heap, x))),
                getParent(r.t.heap, x), Black),
          getRight(r.t.heap, r.sib), Black),
    getParent(r.t.heap, x)))

deleteLeftCases(r, x) ==
  IF getColor(r.t.heap, getLeft(r.t.heap, r.sib))
       /\ getColor(r.t.heap, getRight(r.t.heap, r.sib))
  THEN [t |-> paint(r.t, r.sib, Red), x |-> getParent(r.t.heap, x)]
  ELSE deleteLeftFar(deleteLeftNear(r.t, x, r.sib), x)

\* fixAfterDeleteLeft / fixAfterDeleteRight return the tree and the new x
fixAfterDeleteLeft(t, x) ==
  deleteLeftCases(deleteLeftRedSib(t, x, getRight(t.heap, getParent(t.heap, x))), x)

\* fixAfterDeleteRight, Red sibling: recolour, rotate right at the parent
deleteRightRedSib(t, x, sib) ==
  IF ~getColor(t.heap, sib)
  THEN withBrother(rotateRight(paint(paint(t, sib, Black),
                                     getParent(t.heap, x), Red),
                               getParent(t.heap, x)), x)
  ELSE [t |-> t, sib |-> sib]

\* fixAfterDeleteRight, far child Black: recolour, rotate left at the sibling
deleteRightNear(t, x, sib) ==
  IF getColor(t.heap, getLeft(t.heap, sib))
  THEN withLeftSib(rotateLeft(paint(paint(t, getRight(t.heap, sib), Black),
                                    sib, Red), sib), x)
  ELSE [t |-> t, sib |-> sib]

\* fixAfterDeleteRight, far child Red: recolour, rotate right at the parent
deleteRightFar(r, x) ==
  atRoot(rotateRight(
    paint(paint(paint(r.t, r.sib, getColor(r.t.heap, getParent(r.t.heap, x))),
                getParent(r.t.heap, x), Black),
          getLeft(r.t.heap, r.sib), Black),
    getParent(r.t.heap, x)))

deleteRightCases(r, x) ==
  IF getColor(r.t.heap, getRight(r.t.heap, r.sib))
       /\ getColor(r.t.heap, getLeft(r.t.heap, r.sib))
  THEN [t |-> paint(r.t, r.sib, Red), x |-> getParent(r.t.heap, x)]
  ELSE deleteRightFar(deleteRightNear(r.t, x, r.sib), x)

fixAfterDeleteRight(t, x) ==
  deleteRightCases(deleteRightRedSib(t, x, getLeft(t.heap, getParent(t.heap, x))), x)

\* the condition of the for loop of fixAfterDelete
fixAfterDeleteGoesOn(t, x) == x # t.root /\ getColor(t.heap, x)

RECURSIVE fixAfterDeleteLoop(_, _)
\* the next iteration, with the x a case handler returned; p is the parent
\* of the x the iteration started with.  The iteration is recorded as stray
\* when x is neither p nor the root, and as early when it has rotated and
\* the loop goes on.
fixAfterDeleteAgain(r, p) ==
  fixAfterDeleteLoop(
    [r.t EXCEPT !.iters = @ + 1, !.stray = @ \/ ~(r.x = p \/ r.x = r.t.root),
                !.early = @ \/ (r.t.rots > 0 /\ fixAfterDeleteGoesOn(r.t, r.x))],
    r.x)

\* the loop of fixAfterDelete; x.parent on a nil x is a nil dereference
fixAfterDeleteLoop(t, x) ==
  IF fixAfterDeleteGoesOn(t, x)
  THEN IF x = Nil THEN [t EXCEPT !.panic = TRUE]
       ELSE fixAfterDeleteAgain(
              IF x = getLeft(t.heap, t.heap[x].parent)
              THEN fixAfterDeleteLeft(t, x)
              ELSE fixAfterDeleteRight(t, x),
              t.heap[x].parent)
  ELSE paint(t, x, Black)

\* faulty variant of fixAfterDelete: the loop is never entered
fixAfterDeleteNoLoop(t, x) == paint(t, x, Black)

\* a call of fixAfterDelete
fixAfterDelete(t, x) == fixAfterDeleteLoop([t EXCEPT !.fixups = @ + 1], x)

\* faulty variants of the successor copy: the value, or the whole copy, is
\* forgotten
copySuccessorKeyOnly(h, node, s) == [h EXCEPT ![node].Key = h[s].Key]

copySuccessorNothing(h, node, s) == h

\* deleteNode, two children: the successor's key and value move into node
copySuccessor(h, node, s) ==
  [h EXCEPT ![node].Key = h[s].Key, ![node].Value = h[s].Value]

\* faulty variant of spliceChild: the links of the unlinked node are not reset
spliceChildLinksKept(t0, node, replacement) ==
  LET h1 == t0.heap
      p == h1[node].parent
      h2 == [h1 EXCEPT ![replacement].parent = p]
      h3 == IF p = Nil THEN h2
            ELSE IF node = h2[p].left THEN [h2 EXCEPT ![p].left = replacement]
            ELSE [h2 EXCEPT ![p].right = replacement]
      t4 == [t0 EXCEPT !.heap = h3,
                       !.root = IF p = Nil THEN replacement ELSE t0.root]
  IN IF h1[node].color THEN fixAfterDelete(t4, replacement) ELSE t4

\* deleteNode, replacement != nil: the only child takes node's place
spliceChild(t0, node, replacement) ==
  LET h1 == t0.heap
      p == h1[node].parent
      h2 == [h1 EXCEPT ![replacement].parent = p]
      h3 == IF p = Nil THEN h2
            ELSE IF node = h2[p].left THEN [h2 EXCEPT ![p].left = replacement]
            ELSE [h2 EXCEPT ![p].right = replacement]
      h4 == [h3 EXCEPT ![node].left = Nil, ![node].right = Nil,
                       ![node].parent = Nil]
      t4 == [t0 EXCEPT !.heap = h4,
                       !.root = IF p = Nil THEN replacement ELSE t0.root]
  IN IF h1[node].color THEN fixAfterDelete(t4, replacement) ELSE t4

\* faulty variant of removeRoot: root is not reset
removeRootKept(t) == t

\* deleteNode, no child and no parent: node is the root and the last node
removeRoot(t) == [t EXCEPT !.root = Nil]

\* deleteNode, no child: the last lines, node leaves its parent
detachLeaf(t, node) ==
  LET h2 == t.heap
      p2 == h2[node].parent
      hx == IF p2 = Nil THEN h2
            ELSE IF node = h2[p2].left THEN [h2 EXCEPT ![p2].left = Nil]
            ELSE IF node = h2[p2].right THEN [h2 EXCEPT ![p2].right = Nil]
            ELSE h2
  IN IF p2 = Nil THEN t ELSE [t EXCEPT !.heap = [hx EXCEPT ![node].parent = Nil]]

\* faulty variant of unlinkLeaf: fixAfterDelete is called whatever the colour
unlinkLeafAlwaysFixed(t0, node) == detachLeaf(fixAfterDelete(t0, node), node)

\* deleteNode, no child: rebalance around node if it is Black, then unlink it
unlinkLeaf(t0, node) ==
  detachLeaf(IF t0.heap[node].color THEN fixAfterDelete(t0, node) ELSE t0, node)

\* deleteNode, after the successor copy: node has at most one child
spliceOut(t1, node, replacement) ==
  IF replacement # Nil THEN spliceChild(t1, node, replacement)
  ELSE IF t1.heap[node].parent = Nil THEN removeRoot(t1)
  ELSE unlinkLeaf(t1, node)

\* size--
uncount(t) == [t EXCEPT !.size = @ - 1]

\* deleteNode returns [t, found, gone, copied]: the tree, the node the key
\* was found in, the node that was unlinked, and whether the successor's key
\* and value were copied into found
deleteNode(t0, found) ==
  LET h0 == t0.heap
      two == h0[found].left # Nil /\ h0[found].right # Nil
      node == IF two THEN getSuccessor(h0, found) ELSE found
      h1 == IF two THEN copySuccessor(h0, found, node) ELSE h0
      replacement == IF h1[node].left # Nil THEN h1[node].left ELSE h1[node].right
  IN [t |-> uncount(spliceOut([t0 EXCEPT !.heap = h1], node, replacement)),
      found |-> found, gone |-> node, copied |-> two]

\* ------------------------------------------------------ garbage collection
\* Nodes no longer reachable from root are reclaimed by the Go runtime.
\* Addresses can only be compared for equality, so the surviving nodes are
\* renamed 1..n in in-order position; only the names change.  A pointer
\* from the tree to a node outside it is kept as Lost.
Lost == -1

RECURSIVE InOrderFrom(_, _, _)
InOrderFrom(h, n, fuel) ==
  IF n = Nil \/ fuel = 0 THEN <<>>
  ELSE InOrderFrom(h, h[n].left, fuel - 1) \o <<n>>
         \o InOrderFrom(h, h[n].right, fuel - 1)

Rename(ord, n) ==
  IF n = Nil THEN Nil
  ELSE IF \E i \in 1..Len(ord) : ord[i] = n
       THEN CHOOSE i \in 1..Len(ord) : ord[i] = n
       ELSE Lost

Collect(t) ==
  LET ord == InOrderFrom(t.heap, t.root, Len(t.heap))
  IN [t EXCEPT
        !.heap = [i \in 1..Len(ord) |->
                    LET n == t.heap[ord[i]]
                    IN RBNode(n.Key, n.Value, n.color, Rename(ord, n.left),
                              Rename(ord, n.right), Rename(ord, n.parent))],
        !.root = Rename(ord, t.root)]

\* ---------------------------------------------------------------- skip list
MaxLevel == 32

ListVals == 1..MaxListVal

\* the values randomLevel may return: the low levels and the cap MaxLevel
Levels == (1..MaxPick) \cup {MaxLevel}

skipListNode(Val, Forward) == [Val |-> Val, Forward |-> Forward]

\* newSkipListNode: make([]*skipListNode, level) is all nil
newSkipListNode(Val, level) == skipListNode(Val, [i \in 1..level |-> Nil])

\* the address of sl.header
Header == 1

\* NewSkipList: a header with MaxLevel nil pointers, level 1
NewSkipList ==
  [nodes |-> <<newSkipListNode(0, MaxLevel)>>, level |-> 1, size |-> 0]

\* n.Forward[i]
forward(s, n, i) == s.nodes[n].Forward[i + 1]

\* the inner for loop of Search, Insert and DeleteElement
RECURSIVE advance(_, _, _, _)
advance(s, curr, i, target) ==
  IF forward(s, curr, i) # Nil
       /\ compare(s.nodes[forward(s, curr, i)].Val, target) < 0
  THEN advance(s, forward(s, curr, i), i, target)
  ELSE curr

\* update := make([]*skipListNode, MaxLevel)
NoUpdate == [i \in 0..(MaxLevel - 1) |-> Nil]

\* The for loop over the levels of Insert and DeleteElement, from level i
\* down: update, with update[i] = curr at the end of each level; c is curr
\* after the inner loop, a node of the list.
RECURSIVE levelsFrom(_, _, _, _, _)
levelsBelow(s, c, i, target, update) ==
  IF c \in DOMAIN s.nodes
  THEN levelsFrom(s, c, i - 1, target, [update EXCEPT ![i] = c])
  ELSE update

levelsFrom(s, curr, i, target, update) ==
  IF i < 0 THEN update
  ELSE levelsBelow(s, advance(s, curr, i, target), i, target, update)

descend(s, target) == levelsFrom(s, Header, s.level - 1, target, NoUpdate)

\* the for loop over the levels of Search: curr at its end
RECURSIVE searchFrom(_, _, _, _)
searchBelow(s, c, i, target) ==
  IF c \in DOMAIN s.nodes THEN searchFrom(s, c, i - 1, target) ELSE c

searchFrom(s, curr, i, target) ==
  IF i < 0 THEN curr
  ELSE searchBelow(s, advance(s, curr, i, target), i, target)

isTarget(s, curr, target) == curr # Nil /\ compare(s.nodes[curr].Val, target) = 0

Search(s, target) ==
  isTarget(s, forward(s, searchFrom(s, Header, s.level - 1, target), 0), target)

\* Insert, level > sl.level: the new levels start at the header
raise(s, update, level) ==
  IF level > s.level
  THEN [i \in 0..(MaxLevel - 1) |->
          IF i >= s.level /\ i < level THEN Header ELSE update[i]]
  ELSE update

\* Insert, the loop that links newNode in at the levels 0..level-1: step i
\* reads and writes Forward[i] of update[i] and writes Forward[i] of newNode,
\* so the steps do not meet and are taken together
link(s, update, newNode, level) ==
  [s EXCEPT !.nodes =
     [n \in 1..Len(@) |->
        IF n = newNode
        THEN skipListNode(@[n].Val,
                          [j \in 1..level |-> forward(s, update[j - 1], j - 1)])
        ELSE skipListNode(@[n].Val,
                          [j \in 1..Len(@[n].Forward) |->
                             IF j <= level /\ update[j - 1] = n THEN newNode
                             ELSE @[n].Forward[j]])]]

\* Insert, after the descent; level is what randomLevel returned
insertAt(s, Val, level, update) ==
  link([s EXCEPT !.nodes = Append(@, newSkipListNode(Val, level)),
                 !.level = IF level > @ THEN level ELSE @,
                 !.size = @ + 1],
       raise(s, update, level), Len(s.nodes) + 1, level)

Insert(s, Val, level) == insertAt(s, Val, level, descend(s, Val))

\* DeleteElement, where the unlinking loop stops: the first level i that is
\* not below sl.level or where update[i].Forward[i] is not node
unlinkEnd(s, update, node) ==
  CHOOSE k \in 0..s.level :
    /\ \A i \in 0..(k - 1) : forward(s, update[i], i) = node
    /\ k < s.level => forward(s, update[k], k) # node

\* DeleteElement, the loop that takes node out of the levels below k: step i
\* writes Forward[i] of update[i] only, so the steps are taken together
unlink(s, update, node, k) ==
  [s EXCEPT !.nodes =
     [n \in 1..Len(@) |->
        skipListNode(@[n].Val,
                     [j \in 1..Len(@[n].Forward) |->
                        IF j <= k /\ update[j - 1] = n
                        THEN forward(s, node, j - 1)
                        ELSE @[n].Forward[j]])]]

\* faulty variant of lower: level is left as it is
lowerSkipped(s) == s

\* DeleteElement, the loop that lowers level past the empty levels: it stops
\* at level 1 or at the highest level the header is linked in
lower(s) ==
  [s EXCEPT !.level =
     CHOOSE l \in 1..@ :
       /\ l > 1 => forward(s, Header, l - 1) # Nil
       /\ \A m \in (l + 1)..@ : forward(s, Header, m - 1) = Nil]

\* size -= 1
shrink(s) == [s EXCEPT !.size = @ - 1]

\* DeleteElement, after the descent: [s, ok]
deleteAt(s, target, update, node) ==
  IF ~isTarget(s, node, target) THEN [s |-> s, ok |-> FALSE]
  ELSE [s |-> shrink(lower(unlink(s, update, node, unlinkEnd(s, update, node)))),
        ok |-> TRUE]

\* node := curr.Forward[0], curr being update[0] when the loop ends
deleteFrom(s, target, update) ==
  deleteAt(s, target, update, forward(s, update[0], 0))

DeleteElement(s, target) == deleteFrom(s, target, descend(s, target))

\* AsSlice: the values met along level 0
RECURSIVE sliceFrom(_, _, _)
sliceFrom(s, curr, fuel) ==
  IF forward(s, curr, 0) = Nil \/ fuel = 0 THEN <<>>
  ELSE <<s.nodes[forward(s, curr, 0)].Val>>
         \o sliceFrom(s, forward(s, curr, 0), fuel - 1)

AsSlice(s) == sliceFrom(s, Header, Len(s.nodes))

\* Len
SkipListLen(s) == s.size

\* Nodes no longer linked at level 0 are reclaimed; the others are renamed by
\* their position along level 0, the header keeping address 1.
RECURSIVE chainFrom(_, _, _)
chainFrom(s, curr, fuel) ==
  IF forward(s, curr, 0) = Nil \/ fuel = 0 THEN <<>>
  ELSE <<forward(s, curr, 0)>> \o chainFrom(s, forward(s, curr, 0), fuel - 1)

renamed(s, ord) ==
  [s EXCEPT !.nodes =
     [i \in 1..Len(ord) |->
        skipListNode(s.nodes[ord[i]].Val,
                     [j \in 1..Len(s.nodes[ord[i]].Forward) |->
                        Rename(ord, s.nodes[ord[i]].Forward[j])])]]

CollectList(s) == renamed(s, <<Header>> \o chainFrom(s, Header, Len(s.nodes)))

\* ------------------------------------------------ concurrent priority queue
\* the goroutines that call the methods of one ConcurrentPriorityQueue
Procs == 1..MaxProcs

\* the elements handed to Enqueue
QueueVals == 1..MaxCap

NoProc == 0

\* The wrapped queue.PriorityQueue: its elements in the order Dequeue returns
\* them, and its capacity.
NewPriorityQueue(capacity) == [data |-> <<>>, capacity |-> capacity]

\* c.pg.Len()
pgLen(q) == [q |-> q, val |-> Len(q.data), err |-> FALSE]

\* c.pg.Cap()
pgCap(q) == [q |-> q, val |-> q.capacity, err |-> FALSE]

\* c.pg.Peek(): the first element, an error when the queue is empty
pgPeek(q) ==
  IF q.data = <<>> THEN [q |-> q, val |-> 0, err |-> TRUE]
  ELSE [q |-> q, val |-> q.data[1], err |-> FALSE]

\* the elements of data that go before t, and those that go after it
before(data, t) == SelectSeq(data, LAMBDA e : compare(e, t) <= 0)

after(data, t) == SelectSeq(data, LAMBDA e : compare(e, t) > 0)

\* c.pg.Enqueue(t): an error when a bounded queue is full
pgEnqueue(q, t) ==
  IF q.capacity > 0 /\ Len(q.data) = q.capacity
  THEN [q |-> q, val |-> 0, err |-> TRUE]
  ELSE [q |-> [q EXCEPT !.data = before(@, t) \o <<t>> \o after(@, t)],
        val |-> 0, err |-> FALSE]

\* c.pg.Dequeue(): the first element is removed, an error when the queue is
\* empty
pgDequeue(q) ==
  IF q.data = <<>> THEN [q |-> q, val |-> 0, err |-> TRUE]
  ELSE [q |-> [q EXCEPT !.data = Tail(@)], val |-> q.data[1], err |-> FALSE]

\* The sync.RWMutex m: w is the goroutine that holds the writers' mutex and
\* has announced itself to the readers, readers are the goroutines counted
\* in readerCount, waitFor the readers the writer waits for (readerWait) and
\* blocked the readers asleep until the writer unlocks.
NewRWMutex == [w |-> NoProc, readers |-> {}, waitFor |-> {}, blocked |-> {}]

\* m.RLock() by p: p is counted, and sleeps when a writer has announced itself
RLock(mu, p) ==
  [mu EXCEPT !.readers = @ \cup {p},
             !.blocked = IF mu.w # NoProc THEN @ \cup {p} ELSE @]

\* m.RUnlock() by p: a writer that waits for p waits for it no longer
RUnlock(mu, p) ==
  [mu EXCEPT !.readers = @ \ {p}, !.waitFor = @ \ {p}]

\* m.Lock() by p, once the writers' mutex is free: p announces itself and
\* waits for the readers counted at that moment
Lock(mu, p) == [mu EXCEPT !.w = p, !.waitFor = mu.readers]

\* m.Unlock() by p: the sleeping readers are released, then the writers'
\* mutex
Unlock(mu, p) == [mu EXCEPT !.w = NoProc, !.blocked = {}]

\* has p the read lock, has p the write lock
RLocked(mu, p) == p \in mu.readers /\ p \notin mu.blocked

Locked(mu, p) == mu.w = p /\ mu.waitFor = {}

Methods == {"Len", "Cap", "Peek", "Enqueue", "Dequeue"}

\* faulty variant of lockOf: Enqueue takes the read lock
lockOfEnqueueShared(op) ==
  IF op \in {"Len", "Cap", "Peek", "Enqueue"} THEN "RLock" ELSE "Lock"

\* the lock a method takes in its first line and releases by its defer
lockOf(op) ==
  IF op \in {"Len", "Cap", "Peek"} THEN "RLock" ELSE "Lock"

\* a goroutine between two calls; err is what its last call returned
Idle == [op |-> "none", at |-> "idle", t |-> 0, val |-> 0, err |-> FALSE]

\* ----------------------------------------------------------------- hash map
\* The HashKey objects: Equals compares the identity only, and Code sends
\* every identity below MaxMapKey to one code, so that their chains collide.
Copies == {"a", "b"}

MapKeys == [id : 1..MaxMapKey, copy : Copies]

MapVals == 0..MaxMapVal

Equals(a, b) == a.id = b.id

Code(key) == key.id \div MaxMapKey

\* var val ValType
ZeroVal == 0

hashNode(key, value, next) == [key |-> key, value |-> value, next |-> next]

\* NewNode: nothing is ever put back into nodePool, so Get returns what the
\* pool's factory makes, an empty node
NewNode(key, val) == hashNode(key, val, Nil)

\* NewHashMap
NewHashMap == [hashmap |-> <<>>, nodes |-> <<>>]

\* Put, no chain for the hash yet: the new node becomes the chain head
putNew(hm, hash, key, val) ==
  [hm EXCEPT !.nodes = Append(@, NewNode(key, val)),
             !.hashmap = (hash :> (Len(hm.nodes) + 1)) @@ @]

\* Put, root.key.Equals(key): the value is overwritten in place
putOver(hm, root, val) == [hm EXCEPT !.nodes[root].value = val]

\* faulty variant of putAppend: pre is not moved along the chain, so the new
\* node is linked behind the chain head
putAppendAtHead(hm, pre, key, val) ==
  [hm EXCEPT !.nodes = Append([@ EXCEPT ![hm.hashmap[Code(key)]].next =
                                           Len(hm.nodes) + 1],
                              NewNode(key, val))]

\* Put, the chain holds no equal key: the new node is linked behind pre
putAppend(hm, pre, key, val) ==
  [hm EXCEPT !.nodes = Append([@ EXCEPT ![pre].next = Len(hm.nodes) + 1],
                              NewNode(key, val))]

\* Put, the loop along the chain
RECURSIVE putWalk(_, _, _, _, _)
putWalk(hm, root, pre, key, val) ==
  IF root = Nil THEN putAppend(hm, pre, key, val)
  ELSE IF Equals(hm.nodes[root].key, key) THEN putOver(hm, root, val)
  ELSE putWalk(hm, hm.nodes[root].next, root, key, val)

putAt(hm, hash, key, val) ==
  IF hash \notin DOMAIN hm.hashmap THEN putNew(hm, hash, key, val)
  ELSE putWalk(hm, hm.hashmap[hash], hm.hashmap[hash], key, val)

\* Put returns nil in every case
Put(hm, key, val) == putAt(hm, Code(key), key, val)

\* Get, the loop along the chain
RECURSIVE getWalk(_, _, _)
getWalk(hm, root, key) ==
  IF root = Nil THEN [val |-> ZeroVal, ok |-> FALSE]
  ELSE IF Equals(hm.nodes[root].key, key)
       THEN [val |-> hm.nodes[root].value, ok |-> TRUE]
  ELSE getWalk(hm, hm.nodes[root].next, key)

getAt(hm, hash, key) ==
  IF hash \notin DOMAIN hm.hashmap THEN [val |-> ZeroVal, ok |-> FALSE]
  ELSE getWalk(hm, hm.hashmap[hash], key)

Get(hm, key) == getAt(hm, Code(key), key)

\* --------------------------------------------------------------- the state
VARIABLES
  heap,    \* the RBNode objects, by address
  root,    \* RBTree.root
  size,    \* RBTree.size
  ref,     \* reference map: key -> value of the keys added and not deleted
  last,    \* the last completed call and what it returned
  drained, \* history: some Delete has removed the last node of the tree
  sl,      \* the SkipList: its nodes by address, level and size
  bag,     \* reference multiset: value -> number of occurrences in the list
  res,     \* the last completed call on the list and what it returned
  pg,      \* ConcurrentPriorityQueue.pg, the wrapped queue
  mutex,   \* ConcurrentPriorityQueue.m
  pc,      \* goroutine -> the method it is in, where it is and its result
  hmap,    \* the MyHashMap: its Go map and its chain nodes by address
  puts,    \* reference map: key identity -> what Get is to return for it
  got      \* the last completed call on the hash map and what it returned

queueVars == <<pg, mutex, pc>>

mapVars == <<hmap, puts, got>>

vars == <<heap, root, size, ref, last, drained, sl, bag, res, pg, mutex, pc,
          hmap, puts, got>>

NoListCall == [op |-> "none", val |-> 0, ok |-> FALSE]

\* the list as NewSkipList returns it, before any call
ListIdle ==
  /\ sl = NewSkipList
  /\ bag = [v \in ListVals |-> 0]
  /\ res = NoListCall

\* the queue as NewConcurrentPriorityQueue(capacity) returns it, no goroutine
\* in a call
QueueNew(capacity) ==
  /\ pg = NewPriorityQueue(capacity)
  /\ mutex = NewRWMutex
  /\ pc = [p \in Procs |-> Idle]

QueueIdle == QueueNew(MaxCap)

NoMapCall == [op |-> "none", key |-> 0, val |-> ZeroVal, ok |-> FALSE]

\* the map as NewHashMap returns it, before any call
MapIdle ==
  /\ hmap = NewHashMap
  /\ puts = [id \in 1..MaxMapKey |-> [val |-> ZeroVal, ok |-> FALSE]]
  /\ got = NoMapCall

Tree == [heap |-> heap, root |-> root, size |-> size,
         rots |-> 0, allocs |-> 0, iters |-> 0, panic |-> FALSE, stray |-> FALSE,
         fixups |-> 0, early |-> FALSE]

NoCall == [op |-> "none", key |-> 0, err |-> FALSE, node |-> Nil,
           rots |-> 0, allocs |-> 0, iters |-> 0, panic |-> FALSE,
           stray |-> FALSE, early |-> FALSE, fixed |-> FALSE, copied |-> FALSE, gone |-> ZeroNode,
           spliced |-> Nil, nodeNow |-> Nil, splicedNow |-> Nil, ok |-> FALSE]

Init ==
  /\ heap = NewRBTree.heap
  /\ root = NewRBTree.root
  /\ size = NewRBTree.size
  /\ ref = <<>>
  /\ last = NoCall
  /\ drained = FALSE
  /\ ListIdle
  /\ QueueIdle
  /\ MapIdle

\* A call is described by the tree it leaves, the reference map after it and
\* what it returned.
AddResult(r, k, v) ==
  [t |-> r.t,
   ref |-> IF r.err THEN ref ELSE (k :> v) @@ ref,
   drained |-> drained,
   last |-> [NoCall EXCEPT !.op = "Add", !.key = k, !.err = r.err,
                           !.rots = r.t.rots, !.allocs = r.t.allocs,
                           !.iters = r.t.iters, !.panic = r.t.panic,
                           !.stray = r.t.stray, !.early = r.t.early]]

\* Add(node): the whole of Add/addNode/fixAfterAdd
AddCall(k, v) == AddResult(addNode(Tree, k, v), k, v)

\* the name a node of the tree t carries in the state after the call
NameAfter(t, n) == Rename(InOrderFrom(t.heap, t.root, Len(t.heap)), n)

\* Of a Delete are recorded: the node found and the node unlinked (by their
\* addresses before the call and by their names after it) and the fields of
\* the unlinked node when the call returns.
DeleteResult(r, k) ==
  [t |-> r.t,
   ref |-> [j \in DOMAIN ref \ {k} |-> ref[j]],
   drained |-> (drained \/ DOMAIN ref = {k}),
   last |-> [NoCall EXCEPT !.op = "Delete", !.key = k, !.node = r.found,
                           !.rots = r.t.rots, !.allocs = r.t.allocs,
                           !.iters = r.t.iters, !.panic = r.t.panic,
                           !.stray = r.t.stray, !.early = r.t.early,
                           !.fixed = r.t.fixups > 0, !.copied = r.copied,
                           !.gone = r.t.heap[r.gone], !.spliced = r.gone,
                           !.nodeNow = NameAfter(r.t, r.found),
                           !.splicedNow = NameAfter(r.t, r.gone)]]

\* faulty variant of Delete: size is decremented before the nil check
DeleteCallCountsAbsent(k) ==
  IF getRBNode(Tree, k) = Nil
  THEN [t |-> uncount(Tree), ref |-> ref, drained |-> drained,
        last |-> [NoCall EXCEPT !.op = "Delete", !.key = k]]
  ELSE DeleteResult(deleteNode(Tree, getRBNode(Tree, k)), k)

\* Delete(key): getRBNode, then deleteNode/fixAfterDelete when the key is found
DeleteCall(k) ==
  IF getRBNode(Tree, k) = Nil
  THEN [t |-> Tree, ref |-> ref, drained |-> drained,
        last |-> [NoCall EXCEPT !.op = "Delete", !.key = k]]
  ELSE DeleteResult(deleteNode(Tree, getRBNode(Tree, k)), k)

\* Find(key): getRBNode; the node it returns is recorded
FindCall(k) ==
  [t |-> Tree, ref |-> ref, drained |-> drained,
   last |-> [NoCall EXCEPT !.op = "Find", !.key = k, !.node = getRBNode(Tree, k)]]

\* the state after a call: the fields of RBTree and the surviving nodes
Stored(g, c) ==
  /\ heap' = g.heap
  /\ root' = g.root
  /\ size' = g.size
  /\ ref' = c.ref
  /\ drained' = c.drained
  /\ last' = c.last
  /\ UNCHANGED <<sl, bag, res, queueVars, mapVars>>

Return(c) == Stored(Collect(c.t), c)

\* any sequence of calls of the public API, with free keys and values
Add ==
  \E k \in Keys, v \in Vals :
    /\ Return(AddCall(k, v))

Delete ==
  \E k \in Keys :
    /\ Return(DeleteCall(k))

Find ==
  \E k \in Keys :
    /\ Return(FindCall(k))

Next == Add \/ Delete \/ Find

Spec == Init /\ [][Next]_vars

\* Any sequence of Add and Delete over the larger key set, so that the deep
\* rebalancing cases are reached.  Each key is stored with itself as value,
\* and of a call only its kind, its error and its counters are recorded.
Brief(c) ==
  [c EXCEPT !.last = [c.last EXCEPT !.key = 0, !.node = Nil, !.gone = ZeroNode,
                                    !.spliced = Nil, !.nodeNow = Nil,
                                    !.splicedNow = Nil]]

AddDeep ==
  \E k \in DeepKeys :
    /\ Return(Brief(AddCall(k, k)))

DeleteDeep ==
  \E k \in DeepKeys :
    /\ Return(Brief(DeleteCall(k)))

NextDeep == AddDeep \/ DeleteDeep

SpecDeep == Init /\ [][NextDeep]_vars

\* The calls of the worked example: Add with the keys 10, 20 and 30, in any
\* order and with any value, on a tree that starts empty.
ScenarioKeys == {10, 20, 30}

AddScenario ==
  \E k \in ScenarioKeys, v \in Vals :
    /\ Return(AddCall(k, v))

NextScenario == AddScenario

SpecScenario == Init /\ [][NextScenario]_vars

\* ------------------------------------------------------ invariant validator
\* the loop of IsRedBlackTree: Black nodes on the leftmost path
RECURSIVE leftBlacks(_, _)
leftBlacks(h, node) ==
  IF node = Nil THEN 0
  ELSE (IF h[node].color THEN 1 ELSE 0) + leftBlacks(h, getLeft(h, node))

RECURSIVE nodeCheck(_, _, _, _)
nodeCheck(h, node, count, num) ==
  IF node = Nil THEN TRUE
  ELSE IF ~getColor(h, node) /\ ~getColor(h, h[node].parent) THEN FALSE
  ELSE LET num1 == IF getColor(h, node) THEN num + 1 ELSE num
       IN IF getLeft(h, node) = Nil /\ getRight(h, node) = Nil /\ num1 # count
          THEN FALSE
          ELSE nodeCheck(h, h[node].left, count, num1)
                 /\ nodeCheck(h, h[node].right, count, num1)

IsRedBlackTree(h, r) ==
  IF ~getColor(h, r) THEN FALSE
  ELSE nodeCheck(h, r, leftBlacks(h, r), 0)

\* Every well-linked coloured binary search tree on the nodes lo..hi whose
\* root has parent par; a node's key and value are its in-order position.
RECURSIVE LinkedTrees(_, _, _)
LinkedTrees(lo, hi, par) ==
  IF lo > hi THEN {[root |-> Nil, heap |-> <<>>]}
  ELSE UNION {
         {[root |-> m,
           heap |-> l.heap @@ (m :> RBNode(m, m, c, l.root, r.root, par)) @@ r.heap] :
            l \in LinkedTrees(lo, m - 1, m),
            r \in LinkedTrees(m + 1, hi, m),
            c \in BOOLEAN} : m \in lo..hi}

\* The keys of the nodes at in-order positions s and s + 1 exchanged (s = 0:
\* none), so that the trees handed to the validator include unordered ones.
SwapKeys(h, s) ==
  IF s = 0 THEN h
  ELSE [h EXCEPT ![s].Key = h[s + 1].Key, ![s + 1].Key = h[s].Key]

\* the validator is a function of the tree handed to it: it is run on every
\* well-linked coloured tree of up to MaxShape nodes, with its keys in order
\* or with two neighbouring keys exchanged
InitCheck ==
  \E n \in 0..MaxShape : \E tr \in LinkedTrees(1, n, Nil) :
   \E s \in 0..(IF n = 0 THEN 0 ELSE n - 1) :
    /\ heap = SwapKeys([i \in 1..n |-> tr.heap[i]], s)
    /\ root = tr.root
    /\ size = n
    /\ ref = [k \in 1..n |-> k]
    /\ last = NoCall
    /\ drained = FALSE
    /\ ListIdle
    /\ QueueIdle
    /\ MapIdle

Validate ==
  /\ last' = [NoCall EXCEPT !.op = "IsRedBlackTree",
                            !.ok = IsRedBlackTree(heap, root)]
  /\ UNCHANGED <<heap, root, size, ref, drained, sl, bag, res, queueVars, mapVars>>

NextCheck == Validate

SpecCheck == InitCheck /\ [][NextCheck]_vars

\* The rotations are functions of the tree and the node they are called on:
\* they are run, in any sequence, on every node (nil included) of every
\* linked tree of up to MaxShape nodes.  No node leaves the tree, so the
\* nodes keep their addresses.
Rotated(t, op, n) ==
  /\ heap' = t.heap
  /\ root' = t.root
  /\ last' = [NoCall EXCEPT !.op = op, !.node = n, !.rots = t.rots]
  /\ UNCHANGED <<size, ref, drained, sl, bag, res, queueVars, mapVars>>

RotateLeft ==
  \E n \in 0..Len(heap) :
    /\ Rotated(rotateLeft(Tree, n), "rotateLeft", n)

RotateRight ==
  \E n \in 0..Len(heap) :
    /\ Rotated(rotateRight(Tree, n), "rotateRight", n)

NextRotate == RotateLeft \/ RotateRight

SpecRotate == InitCheck /\ [][NextRotate]_vars

\* ------------------------------------------------------- calls on the list
\* the state after a call on the list: the surviving nodes, level and size
ListStored(c) ==
  /\ sl' = CollectList(c.s)
  /\ bag' = c.bag
  /\ res' = c.res
  /\ UNCHANGED <<heap, root, size, ref, last, drained, queueVars, mapVars>>

\* Insert(Val), with the level randomLevel returns; the list is kept to
\* MaxLen elements
ListInsert ==
  \E v \in ListVals, level \in Levels :
    /\ sl.size < MaxLen
    /\ ListStored([s |-> Insert(sl, v, level),
                   bag |-> [bag EXCEPT ![v] = @ + 1],
                   res |-> [op |-> "Insert", val |-> v, ok |-> FALSE]])

Deleted(r, t) ==
  [s |-> r.s,
   bag |-> [bag EXCEPT ![t] = IF @ > 0 THEN @ - 1 ELSE 0],
   res |-> [op |-> "DeleteElement", val |-> t, ok |-> r.ok]]

ListDeleteElement ==
  \E t \in ListVals :
    /\ ListStored(Deleted(DeleteElement(sl, t), t))

ListSearch ==
  \E t \in ListVals :
    /\ ListStored([s |-> sl, bag |-> bag,
                   res |-> [op |-> "Search", val |-> t, ok |-> Search(sl, t)]])

NextList == ListInsert \/ ListDeleteElement \/ ListSearch

SpecList == Init /\ [][NextList]_vars

\* ------------------------------------------------------ calls on the queue
\* a step of goroutine p: the wrapped queue, the mutex and where p is after it
QueueStep(p, q, mu, c) ==
  /\ pg' = q
  /\ mutex' = mu
  /\ pc' = [pc EXCEPT ![p] = c]
  /\ UNCHANGED <<heap, root, size, ref, last, drained, sl, bag, res, mapVars>>

\* p calls a method
calls(p, op, t) ==
  /\ pc[p].at = "idle"
  /\ QueueStep(p, pg, mutex,
               [Idle EXCEPT !.op = op, !.at = "lock",
                            !.t = IF op = "Enqueue" THEN t ELSE 0])

\* c.m.RLock(): p goes on to the wrapped queue, or sleeps
rlocks(p) ==
  /\ pc[p].at = "lock" /\ lockOf(pc[p].op) = "RLock"
  /\ QueueStep(p, pg, RLock(mutex, p),
               [pc[p] EXCEPT !.at = IF RLocked(RLock(mutex, p), p)
                                      THEN "pg" ELSE "rwait"])

\* c.m.RLock() returns in a reader that slept
rwakes(p) ==
  /\ pc[p].at = "rwait" /\ RLocked(mutex, p)
  /\ QueueStep(p, pg, mutex, [pc[p] EXCEPT !.at = "pg"])

\* c.m.Lock(): p takes the writers' mutex and goes on, or waits for the
\* readers
locks(p) ==
  /\ pc[p].at = "lock" /\ lockOf(pc[p].op) = "Lock"
  /\ mutex.w = NoProc
  /\ QueueStep(p, pg, Lock(mutex, p),
               [pc[p] EXCEPT !.at = IF Locked(Lock(mutex, p), p)
                                      THEN "pg" ELSE "wwait"])

\* c.m.Lock() returns in a writer that waited for the readers
wakes(p) ==
  /\ pc[p].at = "wwait" /\ Locked(mutex, p)
  /\ QueueStep(p, pg, mutex, [pc[p] EXCEPT !.at = "pg"])

\* the call on the wrapped queue returns r
runs(p, op, r) ==
  /\ pc[p].at = "pg" /\ pc[p].op = op
  /\ QueueStep(p, r.q, mutex,
               [pc[p] EXCEPT !.at = "ret", !.val = r.val, !.err = r.err])

\* the deferred c.m.RUnlock() or c.m.Unlock(), and the return
returns(p) ==
  /\ pc[p].at = "ret"
  /\ QueueStep(p, pg,
               IF lockOf(pc[p].op) = "RLock" THEN RUnlock(mutex, p)
               ELSE Unlock(mutex, p),
               [Idle EXCEPT !.err = pc[p].err])

QueueCall ==
  \E p \in Procs, op \in Methods, t \in QueueVals :
    /\ calls(p, op, t)

QueueRLock ==
  \E p \in Procs :
    /\ rlocks(p)

QueueRLockWakes ==
  \E p \in Procs :
    /\ rwakes(p)

QueueLock ==
  \E p \in Procs :
    /\ locks(p)

QueueLockWakes ==
  \E p \in Procs :
    /\ wakes(p)

QueueLen ==
  \E p \in Procs :
    /\ runs(p, "Len", pgLen(pg))

QueueCap ==
  \E p \in Procs :
    /\ runs(p, "Cap", pgCap(pg))

QueuePeek ==
  \E p \in Procs :
    /\ runs(p, "Peek", pgPeek(pg))

QueueEnqueue ==
  \E p \in Procs :
    /\ runs(p, "Enqueue", pgEnqueue(pg, pc[p].t))

QueueDequeue ==
  \E p \in Procs :
    /\ runs(p, "Dequeue", pgDequeue(pg))

QueueReturn ==
  \E p \in Procs :
    /\ returns(p)

NextQueue ==
  \/ QueueCall
  \/ QueueRLock
  \/ QueueRLockWakes
  \/ QueueLock
  \/ QueueLockWakes
  \/ QueueLen
  \/ QueueCap
  \/ QueuePeek
  \/ QueueEnqueue
  \/ QueueDequeue
  \/ QueueReturn

\* what a goroutine does without waiting for another one
proceeds(p) ==
  \/ rlocks(p)
  \/ rwakes(p)
  \/ wakes(p)
  \/ \E op \in Methods :
       runs(p, op, CASE op = "Len" -> pgLen(pg)
                     [] op = "Cap" -> pgCap(pg)
                     [] op = "Peek" -> pgPeek(pg)
                     [] op = "Enqueue" -> pgEnqueue(pg, pc[p].t)
                     [] op = "Dequeue" -> pgDequeue(pg))
  \/ returns(p)

\* a bounded queue of any capacity up to MaxCap
InitQueue ==
  \E capacity \in 1..MaxCap :
    /\ heap = NewRBTree.heap
    /\ root = NewRBTree.root
    /\ size = NewRBTree.size
    /\ ref = <<>>
    /\ last = NoCall
    /\ drained = FALSE
    /\ ListIdle
    /\ QueueNew(capacity)
    /\ MapIdle

\* Any interleaving of the goroutines.  A goroutine that can run does run,
\* and a writer that finds the writers' mutex free again and again gets it
\* (sync.Mutex hands the mutex to a waiter that has waited for long).
SpecQueue ==
  /\ InitQueue
  /\ [][NextQueue]_vars
  /\ \A p \in Procs : WF_vars(proceeds(p)) /\ SF_vars(locks(p))

\* -------------------------------------------------------- calls on the map
MapStored(h, r, c) ==
  /\ hmap' = h
  /\ puts' = r
  /\ got' = c
  /\ UNCHANGED <<heap, root, size, ref, last, drained, sl, bag, res, queueVars>>

MapPut ==
  \E key \in MapKeys, val \in MapVals :
    /\ MapStored(Put(hmap, key, val),
                 [puts EXCEPT ![key.id] = [val |-> val, ok |-> TRUE]],
                 [op |-> "Put", key |-> key, val |-> val, ok |-> TRUE])

MapGet ==
  \E key \in MapKeys :
    /\ MapStored(hmap, puts,
                 [op |-> "Get", key |-> key, val |-> Get(hmap, key).val,
                  ok |-> Get(hmap, key).ok])

NextMap == MapPut \/ MapGet

SpecMap == Init /\ [][NextMap]_vars

\* ------------------------------------------------- what the claims speak of
\* the nodes reachable from n through left and right links
RECURSIVE NodesFrom(_, _, _)
NodesFrom(h, n, fuel) ==
  IF n = Nil \/ fuel = 0 THEN {}
  ELSE {n} \cup NodesFrom(h, h[n].left, fuel - 1)
           \cup NodesFrom(h, h[n].right, fuel - 1)

Nodes == NodesFrom(heap, root, Len(heap) + 1)

KeysUnder(h, n) == {h[m].Key : m \in NodesFrom(h, n, Len(h) + 1)}

\* numbers of Black nodes on the paths from n down to each nil child position
RECURSIVE BlackCounts(_, _, _)
BlackCounts(h, n, fuel) ==
  IF n = Nil \/ fuel = 0 THEN {0}
  ELSE {c + (IF h[n].color = Black THEN 1 ELSE 0) :
          c \in BlackCounts(h, h[n].left, fuel - 1)
                  \cup BlackCounts(h, h[n].right, fuel - 1)}

\* number of nodes on the longest path from n down to a leaf
RECURSIVE Height(_, _, _)
Height(h, n, fuel) ==
  IF n = Nil \/ fuel = 0 THEN 0
  ELSE LET a == Height(h, h[n].left, fuel - 1)
           b == Height(h, h[n].right, fuel - 1)
       IN 1 + (IF a > b THEN a ELSE b)

RootBlack(h, r) == r = Nil \/ h[r].color = Black

NoRedRed(h, r) ==
  \A n \in NodesFrom(h, r, Len(h) + 1) :
    h[n].color = Red =>
      /\ h[n].left # Nil => h[h[n].left].color = Black
      /\ h[n].right # Nil => h[h[n].right].color = Black

BlackBalanced(h, r) == Cardinality(BlackCounts(h, r, Len(h) + 1)) = 1

ColourInvariants(h, r) == RootBlack(h, r) /\ NoRedRed(h, r) /\ BlackBalanced(h, r)

Ordered(h, r) ==
  \A n \in NodesFrom(h, r, Len(h) + 1) :
    /\ \A k \in KeysUnder(h, h[n].left) : compare(k, h[n].Key) < 0
    /\ \A k \in KeysUnder(h, h[n].right) : compare(k, h[n].Key) > 0

\* the keys met by an in-order traversal from root
InOrderKeys == [i \in 1..Len(InOrderFrom(heap, root, Len(heap) + 1)) |->
                  heap[InOrderFrom(heap, root, Len(heap) + 1)[i]].Key]

\* the keys of a set in ascending order
RECURSIVE Ascending(_)
Ascending(S) ==
  IF S = {} THEN <<>>
  ELSE LET m == CHOOSE x \in S : \A y \in S : x <= y
       IN <<m>> \o Ascending(S \ {m})

\* ---------------------------------------- calls on any tree that is valid
\* Every linked tree on the nodes lo..hi, hung under par, in which no Red
\* node has a Red child and every path down to a nil link passes bh Black
\* nodes; its root may be Red only if canRed.  Keys are in-order positions.
\* (Such a tree has at least 2^bh - 1 and fewer than 2^(2 bh + 1) nodes.)
RECURSIVE ValidTrees(_, _, _, _, _)
ValidTrees(lo, hi, par, bh, canRed) ==
  IF lo > hi
  THEN IF bh = 0 THEN {[root |-> Nil, heap |-> <<>>]} ELSE {}
  ELSE IF hi - lo + 2 < 2 ^ bh \/ hi - lo + 2 > 2 ^ (2 * bh + 1) THEN {}
  ELSE UNION {
         UNION {
           {[root |-> m,
             heap |-> l.heap @@ (m :> RBNode(m, m, c, l.root, r.root, par)) @@ r.heap] :
              l \in ValidTrees(lo, m - 1, m, bh - (IF c = Black THEN 1 ELSE 0), c = Black),
              r \in ValidTrees(m + 1, hi, m, bh - (IF c = Black THEN 1 ELSE 0), c = Black)} :
           c \in {x \in BOOLEAN : (x = Red => canRed) /\ (x = Black => bh > 0)}} :
         m \in lo..hi}

\* the heap of a tree of ValidTrees on n nodes holding the even keys 2..2n
\* in order, each with itself as value
Keyed(tr, n) ==
  [i \in 1..n |-> [tr.heap[i] EXCEPT !.Key = 2 * i, !.Value = 2 * i]]

\* the keys of a call on a tree of n nodes: the keys it holds, one key
\* between any two of them, one below and one above
AnyKeys(n) == 1..(2 * n + 1)

\* Add and Delete are functions of the tree they are called on: each is run
\* once, with every key of AnyKeys, on every tree of up to MaxNodes nodes
\* that has a Black root, satisfies the colour invariants and is ordered.
InitAny ==
  \E n \in 0..MaxNodes : \E bh \in 0..n :
    \E tr \in ValidTrees(1, n, Nil, bh, FALSE) :
      /\ heap = Keyed(tr, n)
      /\ root = tr.root
      /\ size = n
      /\ ref = [k \in {2 * i : i \in 1..n} |-> k]
      /\ last = NoCall
      /\ drained = FALSE
      /\ ListIdle
      /\ QueueIdle
      /\ MapIdle

AddAny ==
  \E k \in AnyKeys(size) :
    /\ last = NoCall
    /\ Return(AddCall(k, k))

DeleteAny ==
  \E k \in AnyKeys(size) :
    /\ last = NoCall
    /\ Return(DeleteCall(k))

NextAny == AddAny \/ DeleteAny

SpecAny == InitAny /\ [][NextAny]_vars

\* ------------------------------------------------------------------ claims

\* C1: after every completed Add or Delete the root is nil or Black, no Red
\* node has a Red child, and every path from the root to a nil child position
\* passes through the same number of Black nodes.
C1_ColourInvariants == ColourInvariants(heap, root)

\* C1 witness: a Delete that ran the fixup with at least two rotations on a
\* tree that still holds five nodes.
C1_Witness ==
  /\ last.op = "Delete" /\ last.fixed /\ last.rots >= 2 /\ size >= 5
  /\ ColourInvariants(heap, root)

\* C2: after every completed Add or Delete, every node's left subtree holds
\* only smaller keys and its right subtree only greater keys.
C2_Ordered == Ordered(heap, root)

\* C2 witness: a Delete of a node with two children (the successor's key was
\* copied into it) that also rotated, leaving at least four ordered nodes.
C2_Witness ==
  /\ last.op = "Delete" /\ last.copied /\ last.rots >= 1 /\ size >= 4
  /\ Ordered(heap, root)

\* C3: after every completed Add or Delete, Size() is the number of nodes
\* reachable from root.
C3_SizeIsNodeCount == size = Cardinality(Nodes)

\* C3 witness: a failed duplicate Add on a tree that was emptied by Delete
\* and filled again.
C3_Witness ==
  /\ last.op = "Add" /\ last.err /\ drained /\ size >= 2
  /\ size = Cardinality(Nodes)

\* C4: the tree refines the reference map: the in-order traversal yields
\* exactly the keys added and not deleted since, in ascending order; for every
\* key, the search returns a node holding that key and the value given by its
\* Add when the key is in the map, and nil otherwise; Find changes nothing.
C4_State ==
  /\ InOrderKeys = Ascending(DOMAIN ref)
  /\ \A k \in Keys :
       LET n == getRBNode(Tree, k)
       IN IF k \in DOMAIN ref
          THEN n # Nil /\ heap[n].Key = k /\ heap[n].Value = ref[k]
          ELSE n = Nil
  /\ last.op = "Find" =>
       IF last.key \in DOMAIN ref
       THEN /\ last.node # Nil
            /\ heap[last.node].Key = last.key
            /\ heap[last.node].Value = ref[last.key]
       ELSE last.node = Nil

C4_Refinement ==
  /\ []C4_State
  /\ [][last'.op = "Find" => (heap' = heap /\ root' = root /\ size' = size)]_vars

\* C4 witness: a Find that returned a node of a three-node tree whose keys
\* carry different values, one of them different from its key.
C4_Witness ==
  /\ last.op = "Find" /\ last.node # Nil /\ size = 3
  /\ heap[last.node].Value = ref[last.key]
  /\ ref[last.key] # last.key
  /\ \E j \in DOMAIN ref : ref[j] # ref[last.key]

\* C5: an Add whose key is already in the tree returns the error and leaves
\* root, every node (key, value, colour, links) and Size() as they were.
C5_DuplicateAddFrame ==
  [][(last'.op = "Add" /\ last'.key \in KeysUnder(heap, root))
       => (last'.err /\ heap' = heap /\ root' = root /\ size' = size)]_vars

\* C5 witness: a failed duplicate Add on a full tree.
C5_Witness ==
  /\ last.op = "Add" /\ last.err /\ size = MaxKey
  /\ last.key \in DOMAIN ref

\* C6: a Delete of a present key lowers Size() by one, makes the key
\* unfindable and leaves every other present key findable with its value.
C6_DeletePresent ==
  [][(last'.op = "Delete" /\ last'.key \in KeysUnder(heap, root))
       => /\ size' = size - 1
          /\ getRBNodeFrom(heap', root', last'.key) = Nil
          /\ \A j \in Keys \ {last'.key} :
               LET a == getRBNodeFrom(heap, root, j)
                   b == getRBNodeFrom(heap', root', j)
               IN a # Nil =>
                    /\ b # Nil
                    /\ heap'[b].Key = j
                    /\ heap'[b].Value = heap[a].Value]_vars

\* C6 witness: a Delete of a node with two children, after which two keys
\* with different values remain.
C6_Witness ==
  /\ last.op = "Delete" /\ last.node # Nil /\ last.copied /\ size = 2
  /\ \E j, k \in DOMAIN ref : ref[j] # ref[k]

\* C7: a Delete of an absent key changes neither root, nor any node, nor
\* Size(), and does not fail.
C7_DeleteAbsentFrame ==
  [][(last'.op = "Delete" /\ last'.key \notin KeysUnder(heap, root))
       => (heap' = heap /\ root' = root /\ size' = size /\ ~last'.panic)]_vars

\* C7 witness: a Delete that found no node, on a tree that holds nodes.
C7_Witness ==
  /\ last.op = "Delete" /\ last.node = Nil /\ size >= 2
  /\ last.key \notin DOMAIN ref

\* C8: once every added key has been deleted the tree is empty (Size() = 0,
\* Root() = nil), and a tree that was emptied keeps all invariants under
\* further Adds and Deletes.
C8_EmptiedAndReusable ==
  /\ DOMAIN ref = {} => (root = Nil /\ size = 0 /\ heap = <<>>)
  /\ drained => /\ ColourInvariants(heap, root)
                /\ Ordered(heap, root)
                /\ size = Cardinality(Nodes)

\* C8 witness: a successful Add that brings a tree emptied earlier back to
\* at least four nodes.
C8_Witness ==
  /\ drained /\ last.op = "Add" /\ ~last.err /\ size >= 4
  /\ ColourInvariants(heap, root)

\* C9: the height h of a tree of n nodes satisfies h <= 2 * log2(n + 1),
\* that is 2^h <= (n + 1)^2.
C9_HeightBound == 2 ^ Height(heap, root, Len(heap) + 1) <= (size + 1) * (size + 1)

\* C9 witness: a successful Add that leaves at least six nodes and height 4.
C9_Witness ==
  /\ last.op = "Add" /\ ~last.err /\ size >= 6
  /\ Height(heap, root, Len(heap) + 1) >= 4

\* C10: IsRedBlackTree returns true exactly for the trees whose root is
\* Black, that have no Red node with a Red child, and in which every path
\* from the root to a nil child position has the same number of Black nodes.
C10_ValidatorExact ==
  last.op = "IsRedBlackTree" => (last.ok <=> ColourInvariants(heap, root))

\* the keys of a sequence strictly increase per the comparator
Increasing(s) == \A i \in 1..(Len(s) - 1) : compare(s[i], s[i + 1]) < 0

\* C11: IsRedBlackTree returns false for every tree whose in-order key
\* sequence is not strictly increasing per the comparator.
C11_ValidatorChecksOrder ==
  (last.op = "IsRedBlackTree" /\ ~Increasing(InOrderKeys)) => ~last.ok

\* C12: a successful Add creates exactly one node object, a failed duplicate
\* Add creates none, Delete (rotations included) creates none, and a Delete
\* of a present key leaves exactly one node fewer alive.
C12_Created ==
  /\ last.op = "Add" => last.allocs = (IF last.err THEN 0 ELSE 1)
  /\ last.op = "Delete" => last.allocs = 0

C12_NodeLifecycle ==
  /\ []C12_Created
  /\ [][(last'.op = "Delete" /\ last'.key \in KeysUnder(heap, root))
          => Len(heap') = Len(heap) - 1]_vars

\* the trees of the worked example, with the values the keys were added with
OnlyTen == <<RBNode(10, ref[10], Black, Nil, Nil, Nil)>>

TenTwenty ==
  <<RBNode(10, ref[10], Black, Nil, 2, Nil), RBNode(20, ref[20], Red, Nil, Nil, 1)>>

TwentyOnTop ==
  <<RBNode(10, ref[10], Red, Nil, Nil, 2), RBNode(20, ref[20], Black, 1, 3, Nil),
    RBNode(30, ref[30], Red, Nil, Nil, 2)>>

AddsKey(k) == last'.op = "Add" /\ last'.key = k /\ ~last'.err

\* C13: Add 10 to the empty tree gives the Black root 10; Add 20 then hangs
\* 20 as Red right child under the Black root 10 without rotation or
\* recolouring; Add 30 then gives the Black root 20 with the Red children 10
\* and 30 by one rotation, 20 turning Black and 10 Red; IsRedBlackTree accepts
\* that tree and its in-order traversal is 10, 20, 30.
C13_Scenario ==
  /\ [][(root = Nil /\ AddsKey(10)) => (root' = 1 /\ heap' = OnlyTen')]_vars
  /\ [][(root = 1 /\ DOMAIN ref = {10} /\ heap = OnlyTen /\ AddsKey(20))
          => (root' = 1 /\ heap' = TenTwenty' /\ last'.rots = 0)]_vars
  /\ [][(root = 1 /\ DOMAIN ref = {10, 20} /\ heap = TenTwenty /\ AddsKey(30))
          => /\ root' = 2 /\ heap' = TwentyOnTop'
             /\ last'.rots = 1
             /\ IsRedBlackTree(heap', root')
             /\ InOrderKeys' = <<10, 20, 30>>]_vars

\* C13 witness: the Add of 30 has rotated once and left 20 on top of 10 and
\* 30, with 20 the last key but one to arrive under root 10.
C13_Witness ==
  /\ last.op = "Add" /\ last.key = 30 /\ ~last.err /\ last.rots = 1
  /\ DOMAIN ref = {10, 20, 30} /\ root = 2 /\ heap = TwentyOnTop

\* the height of the tree before the call
HeightBefore == Height(heap, root, Len(heap) + 1)

\* C14: every Add and every Delete on a tree satisfying the invariants
\* terminates without a nil dereference: each iteration of the fixAfterAdd
\* loop moves x to its grandparent or leaves x under a Black parent, each
\* iteration of the fixAfterDelete loop moves x to its parent or to the root,
\* and the number of iterations is bounded by the height of the tree.
C14_Terminates ==
  /\ [](last.op \in {"Add", "Delete"} => (~last.panic /\ ~last.stray))
  /\ [][last'.op = "Add" => last'.iters <= HeightBefore + 1]_vars
  /\ [][last'.op = "Delete" => last'.iters <= HeightBefore]_vars

\* C14 witness: a Delete whose fixup loop ran twice and then stopped.
C14_Witness ==
  /\ last.op = "Delete" /\ last.fixed /\ last.iters >= 2
  /\ ~last.panic /\ ~last.stray

\* the node Delete(k) unlinks from the tree (h, r): the node holding k, or
\* its in-order successor when that node has two children
FoundBy(h, r, k) == getRBNodeFrom(h, r, k)

TwoChildren(h, n) == h[n].left # Nil /\ h[n].right # Nil

SplicedBy(h, r, k) ==
  IF TwoChildren(h, FoundBy(h, r, k)) THEN getSuccessor(h, FoundBy(h, r, k))
  ELSE FoundBy(h, r, k)

OnlyChild(h, d) == IF h[d].left # Nil THEN h[d].left ELSE h[d].right

\* the name a node other than d carries once d has left the in-order sequence
After(d, n) == IF n > d THEN n - 1 ELSE n

\* a link to d leads to d's only child (or to nothing) once d is unlinked
Past(h, d, n) == IF n = d THEN OnlyChild(h, d) ELSE n

\* the tree (h, r) with d unlinked and nothing else changed, except that the
\* node found takes d's key and value when d is its successor
Unlinked(h, r, d, found) ==
  [root |-> After(d, Past(h, d, r)),
   heap |-> [i \in 1..(Len(h) - 1) |->
               LET n == IF i < d THEN i ELSE i + 1
               IN RBNode(IF n = found THEN h[d].Key ELSE h[n].Key,
                         IF n = found THEN h[d].Value ELSE h[n].Value,
                         h[n].color,
                         After(d, Past(h, d, h[n].left)),
                         After(d, Past(h, d, h[n].right)),
                         After(d, IF n = OnlyChild(h, d) THEN h[d].parent
                                  ELSE h[n].parent))]]

DeletesPresent == last'.op = "Delete" /\ last'.key \in KeysUnder(heap, root)

\* C15: a Delete that splices out a Red node does not call the fixup, does
\* not rotate and changes no colour: the tree afterwards is the tree before
\* with that node unlinked (and the successor's key and value copied into
\* the found node in the two-children case), and the colour invariants hold.
\* The fixup is called exactly when the spliced-out node is Black and is not
\* the last node of the tree.
C15_RedSpliceFrame ==
  [][DeletesPresent =>
       LET d == SplicedBy(heap, root, last'.key)
           e == Unlinked(heap, root, d, FoundBy(heap, root, last'.key))
       IN /\ last'.fixed <=> (heap[d].color = Black /\ size > 1)
          /\ heap[d].color = Red =>
               /\ ~last'.fixed /\ last'.rots = 0
               /\ heap' = e.heap /\ root' = e.root
               /\ ColourInvariants(heap', root')]_vars

\* C15 witness: a Delete of a node with two children whose successor, the
\* node unlinked, was Red; no fixup ran and at least three nodes remain.
C15_Witness ==
  /\ last.op = "Delete" /\ last.copied /\ ~last.fixed /\ last.rots = 0
  /\ last.gone.color = Red /\ size >= 3

\* every child link of a node reachable from r is answered by the child's
\* parent link, and r itself has no parent
ParentsMatch(h, r) ==
  /\ r # Nil => h[r].parent = Nil
  /\ \A n \in NodesFrom(h, r, Len(h) + 1) :
       /\ h[n].left # Nil => h[h[n].left].parent = n
       /\ h[n].right # Nil => h[h[n].right].parent = n

\* the traversal from r meets no node twice
OnePath(h, r) ==
  LET ord == InOrderFrom(h, r, Len(h) + 1)
  IN \A i, j \in 1..Len(ord) : ord[i] = ord[j] => i = j

\* C16: after every completed Add or Delete, root has no parent, every child
\* of a node reachable from root has that node as its parent, and no node is
\* reachable from root by two different paths.
C16_ParentLinks == ParentsMatch(heap, root) /\ OnePath(heap, root)

\* C16 witness: a Delete of a node with two children that rotated twice or
\* more and left at least four nodes, all with matching parent links.
C16_Witness ==
  /\ last.op = "Delete" /\ last.copied /\ last.rots >= 2 /\ size >= 4
  /\ ParentsMatch(heap, root) /\ OnePath(heap, root)

\* key, value and colour of every node are as before
SameContents ==
  /\ Len(heap') = Len(heap)
  /\ \A i \in 1..Len(heap) :
       /\ heap'[i].Key = heap[i].Key
       /\ heap'[i].Value = heap[i].Value
       /\ heap'[i].color = heap[i].color

\* the link fields of the nodes outside S are as before
SameLinksOutside(S) ==
  \A i \in (1..Len(heap)) \ S :
    /\ heap'[i].left = heap[i].left
    /\ heap'[i].right = heap[i].right
    /\ heap'[i].parent = heap[i].parent

\* child c has taken the slot of node n under n's former parent p, or is the
\* root if n had none; root moves exactly when n was the root
TakesSlot(n, c, p) ==
  /\ heap'[c].parent = p
  /\ root' = (IF root = n THEN c ELSE root)
  /\ (root' = c) <=> (root = n)
  /\ p # Nil =>
       /\ heap'[p].parent = heap[p].parent
       /\ IF heap[p].left = n
          THEN heap'[p].left = c /\ heap'[p].right = heap[p].right
          ELSE heap'[p].right = c /\ heap'[p].left = heap[p].left

\* what is kept whatever the direction
RotationKeeps ==
  /\ SameContents
  /\ InOrderKeys' = InOrderKeys
  /\ Ordered(heap, root) => Ordered(heap', root')
  /\ ParentsMatch(heap, root) => ParentsMatch(heap', root')

LeftRotationOf(n) ==
  LET r == heap[n].right
      rl == heap[r].left
  IN /\ RotationKeeps
     /\ TakesSlot(n, r, heap[n].parent)
     /\ heap'[r].left = n /\ heap'[r].right = heap[r].right
     /\ heap'[n].parent = r /\ heap'[n].right = rl /\ heap'[n].left = heap[n].left
     /\ rl # Nil => /\ heap'[rl].parent = n
                    /\ heap'[rl].left = heap[rl].left
                    /\ heap'[rl].right = heap[rl].right
     /\ SameLinksOutside({n, r, rl, heap[n].parent})

RightRotationOf(n) ==
  LET l == heap[n].left
      lr == heap[l].right
  IN /\ RotationKeeps
     /\ TakesSlot(n, l, heap[n].parent)
     /\ heap'[l].right = n /\ heap'[l].left = heap[l].left
     /\ heap'[n].parent = l /\ heap'[n].left = lr /\ heap'[n].right = heap[n].right
     /\ lr # Nil => /\ heap'[lr].parent = n
                    /\ heap'[lr].left = heap[lr].left
                    /\ heap'[lr].right = heap[lr].right
     /\ SameLinksOutside({n, l, lr, heap[n].parent})

\* C17: rotateLeft(node) with a right child and rotateRight(node) with a left
\* child change no key, value or colour and keep the in-order key sequence
\* and the ordering; the promoted child takes node's slot under node's
\* former parent, or becomes root exactly when node was the root; node
\* becomes its child and receives its inner subtree, whose parent link
\* follows; every other link is unchanged.
C17_RotationFrame ==
  [][\A n \in 1..Len(heap) :
       /\ (last'.op = "rotateLeft" /\ last'.node = n /\ heap[n].right # Nil)
            => LeftRotationOf(n)
       /\ (last'.op = "rotateRight" /\ last'.node = n /\ heap[n].left # Nil)
            => RightRotationOf(n)]_vars

\* C17 witness: a rotation to the right has been made at a node that was not
\* the root and whose left child handed over an inner subtree: the node now
\* has a parent above its new parent and a left child.
C17_Witness ==
  /\ last.op = "rotateRight" /\ last.rots = 1 /\ last.node # Nil
  /\ heap[last.node].left # Nil
  /\ heap[last.node].parent # Nil
  /\ heap[heap[last.node].parent].right = last.node
  /\ heap[heap[last.node].parent].parent # Nil

\* the in-order successor of n: the node with the smallest key above n's
InOrderSuccessor(h, r, n) ==
  CHOOSE m \in NodesFrom(h, r, Len(h) + 1) :
    /\ compare(h[m].Key, h[n].Key) > 0
    /\ \A j \in NodesFrom(h, r, Len(h) + 1) :
         compare(h[j].Key, h[n].Key) > 0 => compare(h[m].Key, h[j].Key) <= 0

\* the node unlinked has at most one child; if the node found, n, has two,
\* it is n's in-order successor, in n's right subtree and without left child
UnlinksSuccessor(n, d) ==
  /\ ~TwoChildren(heap, d)
  /\ TwoChildren(heap, n) =>
       /\ d = InOrderSuccessor(heap, root, n)
       /\ d \in NodesFrom(heap, heap[n].right, Len(heap) + 1)
       /\ heap[d].left = Nil

\* after the call the unlinked node has no links and is out of the tree
CutOff ==
  /\ last'.gone.left = Nil /\ last'.gone.right = Nil /\ last'.gone.parent = Nil
  /\ last'.splicedNow = Lost

\* n is still in the tree and holds the key and value that d held
HoldsSuccessor(n, d) ==
  /\ last'.nodeNow \in 1..Len(heap')
  /\ heap'[last'.nodeNow].Key = heap[d].Key
  /\ heap'[last'.nodeNow].Value = heap[d].Value

\* n has the colour and the parent and children it had, d's place in them
\* taken by d's child
InPlace(n, d) ==
  /\ last'.nodeNow = After(d, n)
  /\ heap'[last'.nodeNow].color = heap[n].color
  /\ heap'[last'.nodeNow].parent = After(d, heap[n].parent)
  /\ heap'[last'.nodeNow].left = After(d, Past(heap, d, heap[n].left))
  /\ heap'[last'.nodeNow].right = After(d, Past(heap, d, heap[n].right))

\* C18 as stated: the node unlinked by Delete has at most one child; when
\* the found node n has two children, the unlinked node is its in-order
\* successor s, n stays at its position with its colour and holds s's key
\* and value, and after the call s has no links and is not reachable.
C18_AsStated ==
  [][DeletesPresent =>
       /\ UnlinksSuccessor(last'.node, last'.spliced)
       /\ TwoChildren(heap, last'.node) =>
            /\ HoldsSuccessor(last'.node, last'.spliced)
            /\ InPlace(last'.node, last'.spliced)
            /\ CutOff]_vars

\* C18 amended: as stated, except that n keeps its position and colour only
\* when s is Red; when s is Black the deletion fixup may rotate and recolour
\* n, which still is in the tree and holds s's key and value.
C18_SuccessorSplice ==
  [][DeletesPresent =>
       /\ UnlinksSuccessor(last'.node, last'.spliced)
       /\ TwoChildren(heap, last'.node) =>
            /\ HoldsSuccessor(last'.node, last'.spliced)
            /\ heap[last'.spliced].color = Red
                 => InPlace(last'.node, last'.spliced)
            /\ CutOff]_vars

\* C18 witness: a Delete of a node with two children whose successor was
\* Black: the fixup ran and rotated, the successor is out of the tree and the
\* found node is in it, under a value that differs from its key.
C18_Witness ==
  /\ last.op = "Delete" /\ last.copied /\ last.fixed /\ last.rots >= 1
  /\ last.splicedNow = Lost /\ last.nodeNow \in 1..Len(heap)
  /\ last.spliced # last.node /\ size >= 3
  /\ heap[last.nodeNow].Value # heap[last.nodeNow].Key

\* C19: a single Add rotates at most twice and a single Delete at most
\* three times, and the fixup loop exits right after the iteration that
\* rotated: every other iteration only recolours.
C19_RotationBound ==
  /\ last.op = "Add" => (last.rots <= 2 /\ ~last.early)
  /\ last.op = "Delete" => (last.rots <= 3 /\ ~last.early)

\* C19 witness: a Delete whose fixup loop only recoloured in its first
\* iteration and rotated twice in its second and last one.
C19_Witness ==
  /\ last.op = "Delete" /\ last.fixed /\ last.iters = 2 /\ last.rots = 2
  /\ ~last.early

\* the sorted multiset as a sequence: every value, in ascending order, as
\* often as the multiset holds it
RECURSIVE Repeat(_, _)
Repeat(v, n) == IF n = 0 THEN <<>> ELSE <<v>> \o Repeat(v, n - 1)

RECURSIVE SortedFrom(_, _)
SortedFrom(b, v) ==
  IF v > MaxListVal THEN <<>> ELSE Repeat(v, b[v]) \o SortedFrom(b, v + 1)

Count(t) == IF t \in DOMAIN bag THEN bag[t] ELSE 0

\* a sequence without its first element equal to v
RECURSIVE WithoutOne(_, _)
WithoutOne(q, v) ==
  IF q = <<>> THEN <<>>
  ELSE IF q[1] = v THEN Tail(q)
  ELSE <<q[1]>> \o WithoutOne(Tail(q), v)

\* C20: whatever levels randomLevel returns, after any sequence of Insert
\* and DeleteElement calls AsSlice returns the elements of the multiset in
\* non-decreasing order, Len is their number, level is 1 when the list is
\* empty and Search(t) is true exactly for the values in the multiset;
\* DeleteElement(t) returns true and removes one occurrence of t when t is
\* present, and returns false and leaves the list unchanged when it is not.
C20_State ==
  /\ AsSlice(sl) = SortedFrom(bag, 1)
  /\ \A i \in 1..(Len(AsSlice(sl)) - 1) :
       compare(AsSlice(sl)[i], AsSlice(sl)[i + 1]) <= 0
  /\ SkipListLen(sl) = Len(AsSlice(sl))
  /\ AsSlice(sl) = <<>> => sl.level = 1
  /\ \A t \in 0..(MaxListVal + 1) : Search(sl, t) <=> Count(t) > 0
  /\ res.op = "Search" => (res.ok <=> Count(res.val) > 0)

C20_Refinement ==
  /\ []C20_State
  /\ [][res'.op = "DeleteElement" =>
          IF Count(res'.val) > 0
          THEN /\ res'.ok
               /\ AsSlice(sl') = WithoutOne(AsSlice(sl), res'.val)
               /\ SkipListLen(sl') = SkipListLen(sl) - 1
          ELSE ~res'.ok /\ sl' = sl]_vars

\* C20 witness: DeleteElement has removed one of several equal elements from
\* a list whose level is MaxLevel, and one of them is still found.
C20_Witness ==
  /\ res.op = "DeleteElement" /\ res.ok /\ Count(res.val) >= 1
  /\ sl.level = MaxLevel /\ Len(AsSlice(sl)) = 2
  /\ Search(sl, res.val)

\* p is in its call on the wrapped queue
Executing(p) == pc[p].at = "pg"

Writing(p) == Executing(p) /\ pc[p].op \in {"Enqueue", "Dequeue"}

Waiting(p) == pc[p].at \in {"lock", "rwait", "wwait"}

\* p has no part in the mutex
Released(mu, p) ==
  p \notin mu.readers /\ p \notin mu.waitFor /\ p \notin mu.blocked /\ mu.w # p

\* C21: under any interleaving of the callers, while an Enqueue or Dequeue
\* is executing on the wrapped queue no other method is executing on it, so
\* that only Peek, Len and Cap overlap; a call that returns, with an error
\* or without, has released the lock; and a caller that waits for the lock
\* eventually gets to the wrapped queue.
C21_Exclusive ==
  \A p \in Procs, q \in Procs : Writing(p) /\ Executing(q) => p = q

C21_Serialised ==
  /\ []C21_Exclusive
  /\ [][\A p \in Procs :
          pc[p].at = "ret" /\ pc'[p].at = "idle" => Released(mutex', p)]_vars
  /\ [](\A p \in Procs : pc[p].at = "idle" => Released(mutex, p))
  /\ \A p \in Procs : Waiting(p) ~> Executing(p)

\* C21 witness: one caller has got an error back and holds nothing, a second
\* one is executing Enqueue or Dequeue on the wrapped queue, and a third one,
\* a reader, sleeps until the second unlocks.
C21_Witness ==
  \E p \in Procs, q \in Procs, r \in Procs :
    /\ pc[p].at = "idle" /\ pc[p].err /\ Released(mutex, p)
    /\ Writing(q)
    /\ pc[r].at = "rwait" /\ r \in mutex.blocked

\* the chain nodes and their links, values apart
Chains(hm) ==
  [hashmap |-> hm.hashmap,
   nodes |-> [n \in 1..Len(hm.nodes) |-> [hm.nodes[n] EXCEPT !.value = ZeroVal]]]

\* C22: with keys whose Equals is an equivalence consistent with Code, also
\* when distinct keys share a code, after any sequence of Put calls Get(k)
\* returns (v, true) with v the value of the latest Put of a key equal to k,
\* and (zero value, false) when there was none; a Put of a key already in the
\* map keeps the chains as they are, and no Put changes what Get returns for
\* a key that is not equal to its own.
C22_State ==
  /\ \A key \in MapKeys : Get(hmap, key) = puts[key.id]
  /\ got.op = "Get" => [val |-> got.val, ok |-> got.ok] = puts[got.key.id]

C22_LastWriteWins ==
  /\ []C22_State
  /\ [][got'.op = "Put" =>
          /\ Get(hmap', got'.key) = [val |-> got'.val, ok |-> TRUE]
          /\ puts[got'.key.id].ok => Chains(hmap') = Chains(hmap)
          /\ \A key \in MapKeys :
               ~Equals(key, got'.key) => Get(hmap', key) = Get(hmap, key)]_vars

\* C22 witness: three keys that are not equal share a code and a chain, the
\* last of them has been overwritten by a Put of an equal key that is another
\* object, and the map holds a key of another code as well.
C22_Witness ==
  /\ got.op = "Put"
  /\ Len(hmap.nodes) = MaxMapKey
  /\ got.key.id = hmap.nodes[3].key.id /\ got.key.copy # hmap.nodes[3].key.copy
  /\ hmap.nodes[1].next = 2 /\ hmap.nodes[2].next = 3
  /\ hmap.nodes[3].value = got.val /\ got.val # ZeroVal

====
